---- MODULE Spec2Model ----
(***************************************************************************)
(* ufwv2ktracker: the SD-card block driver (firmware/lib/sdcard.py), the   *)
(* hash-chained logger loop (firmware/main.py) and the offline hash-chain  *)
(* verifier (analysis/analysis.py).                                        *)
(*                                                                         *)
(* Texts.  A CSV field is modelled as [v, sp]: the number it denotes and   *)
(* the way it is spelled.  "int" is a plain decimal integer ("100"), "fix" *)
(* is the fixed-decimals text an f"{x:.2f}" produces ("1.00"), "repr" is   *)
(* str() of a float ("100.0"), "exp" is any other spelling of the same     *)
(* number that the CSV reader accepts ("1e2", "0e00") and "junk" is a text *)
(* that is no number ("1x0").                                              *)
(*                                                                         *)
(* Hashes.  SHA-256 is modelled as an injective function (no collisions):  *)
(* the digest of a line is the sequence of its field texts.  The genesis   *)
(* constant "0"*64 is the empty sequence.                                  *)
(***************************************************************************)
EXTENDS Integers, Sequences, FiniteSets, TLC

VARIABLES
    \* ---- offline verifier (analysis.py)
    df,          \* the rows of the CSV file handed to verify_hash_chain
    orig,        \* the chain as the logger wrote it, before any edit
    edit,        \* the edit applied to orig: [kind, j]
    results,     \* the results of the verify_hash_chain calls made so far
    runs,        \* the runs of the analysis tool made so far
    \* ---- logger (main.py, run_logger)
    lpc,         \* "off" | "running" | "stopped" (returned) | "raised"
    storage,     \* the record lines of LOG_FILE, after the header line
    log_buffer,  \* run_logger's log_buffer
    prev_hash,   \* run_logger's prev_hash (the chain cursor)
    clock,       \* time.ticks_ms() in log intervals since boot
    hist,        \* history of the run, for the claims
    \* ---- block driver (sdcard.py) and the card on its bus
    card,        \* how the card answers the bring-up commands
    dpc,         \* "new" | "ready" | "raised": where the SDCard object is
    card_type,   \* self.card_type (0 stands for None)
    cs,          \* level of the chip-select pin
    sent,        \* the command frames written to the bus by the last call
    mem,         \* the card's blocks
    lastw,       \* the last writeblocks call and what it returned
    lastr,       \* the last readblocks call, what it returned and its buf
    poll,        \* the polling loop the driver is in, pass by pass
    lasti        \* the last ioctl call and what it returned

verVars == <<df, orig, edit, results, runs>>
logVars == <<lpc, storage, log_buffer, prev_hash, clock, hist>>
drvVars == <<card, dpc, card_type, cs, sent, mem, lastw, lastr, poll, lasti>>
vars == <<df, orig, edit, results, runs, lpc, storage, log_buffer, prev_hash, clock, hist,
          card, dpc, card_type, cs, sent, mem, lastw, lastr, poll, lasti>>

\* ------------------------------------------------------------------ bounds
MaxChain == 3      \* longest chain handed to the verifier
MaxVal == 1        \* sensor values are 0..MaxVal

\* ------------------------------------------------------------------ texts
Text(v, sp) == [v |-> v, sp |-> sp]

\* "0" * 64 (main.py:154, analysis.py:25)
GENESIS == << >>

\* f"{ts},{rf_b:.2f},...,{prev_hash}" (main.py:187-189): ts stands for the
\* fields written with a plain {x} (integers), rf for the fields written
\* with a fixed number of decimals.
\* Mutant: every line carries the genesis constant as its prev_hash.
LogLine_GenesisLink(ts, rf, ph) == [ts |-> Text(ts, "int"), rf |-> Text(rf, "fix"), ph |-> GENESIS]

LogLine(ts, rf, ph) == [ts |-> Text(ts, "int"), rf |-> Text(rf, "fix"), ph |-> ph]

\* get_hash (main.py:115-117) and hashlib.sha256(...).hexdigest()
\* (analysis.py:38): injective in the line's text.
get_hash(line) == <<line.ts, line.rf>> \o line.ph

\* A digest text with one character changed: no digest of any line.
Corrupt(h) == <<Text(0, "flip")>> \o h

\* pd.read_csv's type of a column (analysis.py:163): int64 when every text
\* is a plain integer, float64 when every text is a number, else the texts
\* are kept as strings (object).
Dtype(texts) ==
    IF \A t \in texts : t.sp = "int" THEN "int64"
    ELSE IF \A t \in texts : t.sp \in {"int", "fix", "repr", "exp"} THEN "float64"
    ELSE "object"

Column(d, f) == {d[i][f] : i \in DOMAIN d}

\* f"{prev['timestamp']}" (analysis.py:32): str() of the parsed value.
FormatPlain(t, dtype) ==
    CASE dtype = "int64" -> Text(t.v, "int")
      [] dtype = "float64" -> Text(t.v, "repr")
      [] OTHER -> t

\* f"{prev['rf_broad']:.2f}" (analysis.py:32): defined for numbers only.
FormatFixed(t) == Text(t.v, "fix")

\* The prev_hash column: a column holding nothing but "0"*64 is read as the
\* integer 0, any digest makes it a column of strings.
PhIsNumber(d) == \A i \in DOMAIN d : d[i].ph = GENESIS

\* The integer 0, which no string equals.
NumberZero == <<Text(0, "number")>>

\* df.iloc[i]['prev_hash'], i counted from 0 as in the code.
PrevHashOf(d, i) == IF PhIsNumber(d) THEN NumberZero ELSE d[i + 1].ph

\* Mutant: prev = df.iloc[i], the row itself instead of the one before it.
PrevLineString_OffByOne(d, i) ==
    [ts |-> FormatPlain(d[i + 2].ts, Dtype(Column(d, "ts"))),
     rf |-> FormatFixed(d[i + 2].rf),
     ph |-> d[i + 2].ph]

\* prev_line_string (analysis.py:32-36) of row i, i counted from 0.
PrevLineString(d, i) ==
    [ts |-> FormatPlain(d[i + 1].ts, Dtype(Column(d, "ts"))),
     rf |-> FormatFixed(d[i + 1].rf),
     ph |-> PrevHashOf(d, i)]

\* The :.2f of analysis.py:32 raises ValueError on a string.
FormatRaises(d) == Dtype(Column(d, "rf")) = "object"

Outcome(kind, at, examined) == [kind |-> kind, at |-> at, examined |-> examined]

\* Mutant: the loop without its break, so that the last pair decides.
RECURSIVE ChainWalk_NoBreak(_, _)
ChainWalk_NoBreak(d, i) ==
    IF i >= Len(d) THEN Outcome("Verified", 0, 1..(Len(d) - 1))
    ELSE IF FormatRaises(d) THEN Outcome("Error", i, 1..(i - 1))
    ELSE IF i = Len(d) - 1 /\ get_hash(PrevLineString(d, i - 1)) # d[i + 1].ph
         THEN Outcome("TamperedAt", i, 1..i)
         ELSE ChainWalk_NoBreak(d, i + 1)

\* The loop of analysis.py:29-44 from index i on; examined is the set of
\* indices i whose pair (i-1, i) was hashed and compared.
RECURSIVE ChainWalk(_, _)
ChainWalk(d, i) ==
    IF i >= Len(d) THEN Outcome("Verified", 0, 1..(Len(d) - 1))
    ELSE IF FormatRaises(d) THEN Outcome("Error", i, 1..(i - 1))
    ELSE IF get_hash(PrevLineString(d, i - 1)) # PrevHashOf(d, i)
         THEN Outcome("TamperedAt", i, 1..i)
         ELSE ChainWalk(d, i + 1)

\* Mutant: the genesis test made after the walk instead of before it.
verify_hash_chain_WalkFirst(d) ==
    IF Len(d) = 0 THEN Outcome("Error", 0, {})
    ELSE LET w == ChainWalk(d, 1)
         IN  IF w.kind = "Verified" /\ d[1].ph # GENESIS
             THEN Outcome("TamperedGenesis", 0, w.examined) ELSE w

\* verify_hash_chain (analysis.py:20-50).  "Error" is an exception leaving
\* the function: IndexError from df.iloc[0] on a log without records.
verify_hash_chain(d) ==
    IF Len(d) = 0 THEN Outcome("Error", 0, {})
    ELSE IF PrevHashOf(d, 0) # GENESIS THEN Outcome("TamperedGenesis", 0, {})
    ELSE ChainWalk(d, 1)

\* ------------------------------------------------- parts that are not running
NoEdit == [kind |-> "none", j |-> 0]
VerIdle == df = << >> /\ orig = << >> /\ edit = NoEdit /\ results = << >> /\ runs = << >>

\* What the claims need of a run's past: passes of the loop and exceptions
\* in all, boots so far, records appended since the last boot, the cursor
\* the last boot computed, the prev_hash of the first record built since,
\* the lines built since the last boot, the length of the file at that boot
\* and whether a threshold flush has raised since.
NoHist == [ticks |-> 0, appended |-> 0, errors |-> 0, boots |-> 0,
           cursor |-> GENESIS, firstph |-> << >>,
           made |-> << >>, base |-> 0, flushfail |-> FALSE]

LogIdle ==
    /\ lpc = "off" /\ storage = << >> /\ log_buffer = << >>
    /\ prev_hash = GENESIS /\ clock = 0
    /\ hist = NoHist

\* ============================================================ block driver
\* sdcard.py:7, 9, 11, 29-31
CMD_TIMEOUT == 100
R1_IDLE_STATE == 1
R1_ILLEGAL_COMMAND == 4
CARD_TYPE_SD1 == 1
CARD_TYPE_SD2 == 2
CARD_TYPE_SDHC == 3

\* A Python value returned by _cmd: an int, or the bytearray of a payload.
PyInt(n) == [kind |-> "int", n |-> n, b |-> << >>]
PyBytes(b) == [kind |-> "bytes", n |-> 0, b |-> b]
\* r == n for an int n: a bytearray equals no int.
PyEqInt(r, n) == r.kind = "int" /\ r.n = n

\* The 6 bytes of cmdbuf (sdcard.py:109-114).
\* Mutant: the argument is laid out least significant byte first.
Frame_LittleEndian(cmd, arg, crc) ==
    <<64 + cmd, arg % 256, (arg \div 256) % 256, (arg \div 65536) % 256,
      (arg \div 16777216) % 256, crc>>

Frame(cmd, arg, crc) ==
    <<64 + cmd, (arg \div 16777216) % 256, (arg \div 65536) % 256,
      (arg \div 256) % 256, arg % 256, crc>>

\* _cmd's result (sdcard.py:117-127) when the card answers the command with
\* token tok (255: no byte below 0x80 within CMD_TIMEOUT reads) and payload.
CmdResult(tok, payload, readlen) ==
    IF tok >= 128 THEN PyInt(-1)
    ELSE IF readlen = 0 THEN PyInt(tok)
    ELSE PyBytes(payload)

InitResult(outcome, ct, level, frames) ==
    [outcome |-> outcome, card_type |-> ct, cs |-> level, sent |-> frames]

PollMs == 400      \* time one pass of the ACMD41 loop takes, in ms

\* The card has finished its initialisation at its n41-th ACMD41: until
\* then CMD55 and ACMD41 answer idle.
Tok55(c, p) == IF c.r55 # R1_IDLE_STATE THEN c.r55 ELSE IF p <= c.n41 THEN 1 ELSE 0
Tok41(c, p) == IF p < c.n41 THEN 1 ELSE 0

\* CMD58 and CMD16 (sdcard.py:91-106).
InitTail(c, ct, frames) ==
    LET f58 == IF ct = CARD_TYPE_SD2 THEN Append(frames, Frame(58, 0, 0)) ELSE frames
        r58 == CmdResult(c.r58, <<c.ccs * 64, 255, 128, 0>>, 4)
        ct2 == IF ct = CARD_TYPE_SD2 /\ r58.kind = "bytes" /\ (r58.b[1] \div 64) % 2 = 1
               THEN CARD_TYPE_SDHC ELSE ct
        f16 == Append(f58, Frame(16, 512, 0))
    IN  IF ct = CARD_TYPE_SD2 /\ r58.kind = "int"
        THEN InitResult("TypeError", ct, 0, f58)
        ELSE IF ~PyEqInt(CmdResult(c.r16, << >>, 0), 0)
        THEN InitResult("OSError", ct2, 0, f16)
        ELSE InitResult("ready", ct2, 1, f16)

\* The ACMD41 loop (sdcard.py:78-89), at its p-th pass.
RECURSIVE InitPoll(_, _, _, _)
InitPoll(c, ct, frames, p) ==
    LET arg == IF ct = CARD_TYPE_SD2 THEN 1073741824 ELSE 0
        f55 == Append(frames, Frame(55, 0, 0))
        idle == PyEqInt(CmdResult(Tok55(c, p), << >>, 0), R1_IDLE_STATE)
        f41 == IF idle THEN Append(f55, Frame(41, arg, 0)) ELSE f55
    IN  IF idle /\ PyEqInt(CmdResult(Tok41(c, p), << >>, 0), 0)
        THEN InitTail(c, ct, f41)
        ELSE IF p * PollMs > 1000
        THEN InitResult("OSError", ct, 1, f41)
        ELSE InitPoll(c, ct, f41, p + 1)

\* Mutant: the token of CMD0 is not tested, bring-up goes on to CMD8.
init_card_Cmd0Unchecked(c) ==
    LET f8 == <<Frame(0, 0, 149), Frame(8, 426, 135)>>
        r8 == CmdResult(c.r8, c.echo, 4)
    IN  IF PyEqInt(r8, R1_IDLE_STATE)
        THEN InitResult("TypeError", CARD_TYPE_SD2, 0, f8)
        ELSE IF PyEqInt(r8, R1_IDLE_STATE + R1_ILLEGAL_COMMAND)
        THEN InitPoll(c, CARD_TYPE_SD1, f8, 1)
        ELSE InitResult("OSError", 0, 0, f8)

\* init_card (sdcard.py:47-106) against card c.
init_card(c) ==
    LET f0 == <<Frame(0, 0, 149)>>
        f8 == Append(f0, Frame(8, 426, 135))
        r8 == CmdResult(c.r8, c.echo, 4)
    IN  IF ~PyEqInt(CmdResult(c.r0, << >>, 0), R1_IDLE_STATE)
        THEN InitResult("OSError", 0, 0, f0)
        ELSE IF PyEqInt(r8, R1_IDLE_STATE)
        THEN \* r[1], r[2] of an int
             InitResult("TypeError", CARD_TYPE_SD2, 0, f8)
        ELSE IF PyEqInt(r8, R1_IDLE_STATE + R1_ILLEGAL_COMMAND)
        THEN InitPoll(c, CARD_TYPE_SD1, f8, 1)
        ELSE InitResult("OSError", 0, 0, f8)

Echo == <<0, 0, 1, 170>>
Cards == [r0 : {1, 0, 255}, r8 : {1, 5, 0, 255}, echo : {Echo, <<0, 0, 0, 0>>},
          r55 : {1, 5}, n41 : 1..4, r58 : {0, 255}, ccs : {0, 1}, r16 : {0, 64}]

\* A call of the block API: its arguments, whether the card followed the
\* protocol during it, what it returned, and the buffer after it.
NoCall == [called |-> FALSE, block_num |-> 0, num_blocks |-> 0, data |-> << >>,
           conf |-> FALSE, fail |-> 0, why |-> "none", ans |-> << >>, ret |-> 0]

NoIoctl == [called |-> FALSE, op |-> 0, ret |-> 0]

\* No polling loop is followed pass by pass.
NoPoll == [loop |-> "none", start |-> 0, now |-> 0, reads |-> 0, stall |-> 0,
           out |-> "idle", ret |-> 0]

DrvIdle ==
    /\ card = [r0 |-> 255, r8 |-> 255, echo |-> Echo, r55 |-> 1, n41 |-> 1,
               r58 |-> 255, ccs |-> 0, r16 |-> 0]
    /\ dpc = "new" /\ card_type = 0 /\ cs = 1 /\ sent = << >>
    /\ mem = << >> /\ lastw = NoCall /\ lastr = NoCall /\ poll = NoPoll /\ lasti = NoIoctl

\* SDCard(spi, cs) is about to be constructed on a bus with some card.
InitCardSpec ==
    /\ card \in Cards
    /\ dpc = "new" /\ card_type = 0 /\ cs = 1 /\ sent = << >>
    /\ mem = << >> /\ lastw = NoCall /\ lastr = NoCall /\ poll = NoPoll /\ lasti = NoIoctl
    /\ VerIdle /\ LogIdle

\* SDCard.__init__ (sdcard.py:35-45): the constructor runs init_card.
Construct ==
    /\ dpc = "new"
    /\ LET r == init_card(card)
       IN  /\ dpc' = IF r.outcome = "ready" THEN "ready" ELSE "raised"
           /\ card_type' = r.card_type
           /\ cs' = r.cs
           /\ sent' = r.sent
    /\ UNCHANGED <<card, mem, lastw, lastr, poll, lasti, verVars, logVars>>

NextCard == Construct

SpecCard == InitCardSpec /\ [][NextCard]_vars

\* ---------------------------------------------------------- driver claims
\* A card that follows the bring-up protocol.
Conforming(c) ==
    /\ c.r0 = 1
    /\ (c.r8 = 1 /\ c.echo = Echo) \/ c.r8 = 5
    /\ c.r55 = 1 /\ c.n41 * PollMs <= 1000
    /\ c.r58 = 0 /\ c.r16 = 0

\* C1: against a card that follows the bring-up protocol init_card completes
\* without raising, and the card type is SDHC (block-addressed) exactly when
\* the card is v2 with the OCR capacity bit set.
C1_BringUp ==
    (dpc # "new" /\ Conforming(card)) =>
        /\ dpc = "ready"
        /\ (card_type = CARD_TYPE_SDHC) <=> (card.r8 = 1 /\ card.ccs = 1)
        /\ card_type \in {CARD_TYPE_SD1, CARD_TYPE_SD2, CARD_TYPE_SDHC}

\* ================================================== block reads and writes
MaxBlocks == 2     \* num_blocks of a call is 1..MaxBlocks

\* ioctl(4) (sdcard.py:226): the number of blocks the driver reports.
Capacity == 8388608
\* sdcard.py:131 and 146: the limits of the polling loops in ms.  A pass of
\* either loop sleeps 1 ms, so a limit of t ms allows at most t reads.
WaitReadyMs == 500
ReadTokenMs == 200
\* raise ValueError (sdcard.py:189-190, 205-206), as a return value.
ValueErrorRaised == -2

DataVals == {0, 1}          \* the contents a 512-byte block can have
Stale == 2                  \* what a caller's buffer holds before a read
StartBlocks == {0, Capacity - 1}
CardBlocks == {b \in {s + k : s \in StartBlocks, k \in 0..(MaxBlocks - 1)} : b < Capacity}
\* The buffers of calls, block by block: consecutive blocks differ.
Buffers(vals) == UNION {{[i \in 1..n |-> (v + i) % 2] : v \in vals} : n \in 1..MaxBlocks}

\* How the card answers one single-block write: its token for CMD24, the
\* idle bytes before its data-response token, that token, and the number of
\* reads it answers 0x00 (busy) before it reads as 0xFF again.
WriteAnswer(r24, pre, tok, busy) == [r24 |-> r24, pre |-> pre, tok |-> tok, busy |-> busy]
WriteAnswers ==
    {WriteAnswer(0, 0, 229, 1), WriteAnswer(0, 0, 5, 120), WriteAnswer(0, 0, 11, 0),
     WriteAnswer(0, 0, 245, 1), WriteAnswer(0, 0, 245, 600), WriteAnswer(64, 0, 229, 0)}
\* The answers of a card that follows the protocol: the command accepted,
\* the data-response token xxx0 010 1 right after the block, ready in time.
ConformingWrite(w) ==
    w.r24 = 0 /\ w.pre = 0 /\ w.tok \in {5, 229} /\ w.busy + CMD_TIMEOUT < WaitReadyMs

\* How the card answers one single-block read: its token for CMD17 and the
\* ms until it sends the start-of-block token 0xFE.
ReadAnswers == {[r17 |-> 0, lat |-> 1], [r17 |-> 0, lat |-> 300], [r17 |-> 64, lat |-> 1]}
ConformingRead(a) == a.r17 = 0 /\ a.lat < ReadTokenMs

\* The k-th byte the card sends after the data block of a write.
WriteStream(w, k) ==
    IF k <= w.pre THEN 255
    ELSE IF k = w.pre + 1 THEN w.tok
    ELSE IF k <= w.pre + 1 + w.busy THEN 0
    ELSE 255

\* tokenbuf[0] & 0x10, as 0 or 1
Bit4(b) == (b \div 16) % 2

\* The loop of sdcard.py:171-174: the number of reads it makes.  It leaves
\* at the first byte that has bit 0x10 set, or after CMD_TIMEOUT reads.
ResponseReads(w) ==
    IF \E k \in 1..CMD_TIMEOUT : Bit4(WriteStream(w, k)) # 0
    THEN CHOOSE k \in 1..CMD_TIMEOUT :
             /\ Bit4(WriteStream(w, k)) # 0
             /\ \A m \in 1..(k - 1) : Bit4(WriteStream(w, m)) = 0
    ELSE CMD_TIMEOUT

\* _wait_ready (sdcard.py:129-136) once n bytes of the stream were read.
wait_ready(w, n) ==
    IF \E k \in (n + 1)..(n + WaitReadyMs) : WriteStream(w, k) = 255 THEN 0 ELSE -1

\* _write (sdcard.py:160-185) against the answer w.
write(w) ==
    IF w.r24 # 0 THEN -1
    ELSE IF WriteStream(w, ResponseReads(w)) % 16 # 5 THEN -1
    ELSE IF wait_ready(w, ResponseReads(w)) # 0 THEN -1
    ELSE 0

\* Mutant: the wait for the data token has no time limit.
readinto_NoTimeout(a) == IF a.r17 # 0 THEN -1 ELSE 0

\* _readinto (sdcard.py:138-158) against the answer a.
readinto(a) ==
    IF a.r17 # 0 THEN -1
    ELSE IF a.lat >= ReadTokenMs THEN -1
    ELSE 0

\* What _write returns, answer by answer.
WriteReturns == [w \in WriteAnswers |-> write(w)]

\* The return statement at which _write leaves (sdcard.py:164, 178, 182, 185).
write_site(w) ==
    IF w.r24 # 0 THEN "command"
    ELSE IF WriteStream(w, ResponseReads(w)) % 16 # 5 THEN "rejected"
    ELSE IF wait_ready(w, ResponseReads(w)) # 0 THEN "timeout"
    ELSE "done"

WriteSites == [w \in WriteAnswers |-> write_site(w)]

\* The return statement at which _readinto leaves (sdcard.py:142, 153, 158).
readinto_site(a) ==
    IF a.r17 # 0 THEN "command"
    ELSE IF a.lat >= ReadTokenMs THEN "timeout"
    ELSE "done"

\* addr of sdcard.py:194-196 and 210-212: (block_num + i) * 512 unless the
\* card is block-addressed.  Kept as the pair of its factors: [n, unit]
\* stands for the integer n * unit.
\* Mutant: the addressing mode is derived anew for the blocks after the
\* first, as block addressing.
Addr_ModeRederived(ct, block_num, i) ==
    [n |-> block_num + i, unit |-> IF ct # CARD_TYPE_SDHC /\ i = 0 THEN 512 ELSE 1]

Addr(ct, block_num, i) ==
    [n |-> block_num + i, unit |-> IF ct # CARD_TYPE_SDHC THEN 512 ELSE 1]

\* cmdbuf (sdcard.py:109-114) for arg = addr.n * addr.unit and crc = 0:
\* (n * 512 >> 24) & 0xFF is (n >> 15) & 0xFF, and so on.
FrameAt(cmd, addr) ==
    IF addr.unit = 512
    THEN <<64 + cmd, (addr.n \div 32768) % 256, (addr.n \div 128) % 256,
           (addr.n * 2) % 256, 0, 0>>
    ELSE Frame(cmd, addr.n, 0)

\* The block a card of type ct addresses with the argument on the wire:
\* block-addressed cards take block numbers, the others byte addresses.
BlockOf(ct, frame) ==
    IF ct = CARD_TYPE_SDHC
    THEN frame[2] * 16777216 + frame[3] * 65536 + frame[4] * 256 + frame[5]
    ELSE frame[2] * 32768 + frame[3] * 128 + frame[4] \div 2

\* The card stores the block when it took the command and its data-response
\* token says accepted (status 010); it refuses an address it does not have.
CardAnswer(m, b, w) == IF b \in DOMAIN m THEN w ELSE [w EXCEPT !.r24 = 64]
CardStores(w) == w.r24 = 0 /\ w.tok % 32 = 5

\* A call of the block API as its caller and the card saw it: the arguments,
\* whether the card answered as the protocol says (conf), the first block
\* whose single-block operation failed (fail, 0 when none did) with the
\* return statement it left at (why), the answers the card gave to the
\* commands it was sent (ans), and what the call returned.
Call(block_num, n, data, conf, fail, why, ans, ret) ==
    [called |-> TRUE, block_num |-> block_num, num_blocks |-> n, data |-> data,
     conf |-> conf, fail |-> fail, why |-> why, ans |-> ans, ret |-> ret]

\* The first index at which a sequence of return values is not 0, or 0.
FirstFailing(rets) ==
    IF \E i \in DOMAIN rets : rets[i] # 0
    THEN CHOOSE i \in DOMAIN rets : rets[i] # 0 /\ \A j \in 1..(i - 1) : rets[j] = 0
    ELSE 0

\* The block the i-th command of a transfer reaches on the card (i from 0).
Target(ct, cmd, block_num, i) == BlockOf(ct, FrameAt(cmd, Addr(ct, block_num, i)))

\* What the single-block operations of a transfer would return one by one,
\* and the return statements they would leave at.
WriteRets(ct, block_num, n, ws, m) ==
    [i \in 1..n |-> IF Target(ct, 24, block_num, i - 1) \in DOMAIN m
                    THEN WriteReturns[ws[i]] ELSE -1]
WriteWhys(ct, block_num, n, ws, m) ==
    [i \in 1..n |-> IF Target(ct, 24, block_num, i - 1) \in DOMAIN m
                    THEN WriteSites[ws[i]] ELSE "command"]
ReadRets(ct, block_num, n, as, m) ==
    [i \in 1..n |-> IF Target(ct, 17, block_num, i - 1) \in DOMAIN m
                    THEN readinto(as[i]) ELSE -1]
ReadWhys(ct, block_num, n, as, m) ==
    [i \in 1..n |-> IF Target(ct, 17, block_num, i - 1) \in DOMAIN m
                    THEN readinto_site(as[i]) ELSE "command"]
WhyAt(whys, fail) == IF fail = 0 THEN "none" ELSE whys[fail]

\* The card's answers to the k commands of a transfer that it is sent (up
\* to the first block that fails): xs as
\* listed for a block the card has, a refusal of the command otherwise.
Answered(ct, cmd, block_num, k, xs, m) ==
    [i \in 1..k |-> [x |-> xs[i],
                     refused |-> Target(ct, cmd, block_num, i - 1) \notin DOMAIN m]]

\* The loop of writeblocks (sdcard.py:209-218) from i on, ws[i + 1] being
\* the card's answer to the i-th single-block write.
RECURSIVE WriteLoop(_, _, _, _, _, _, _, _)
WriteLoop(ct, block_num, n, data, ws, i, m, frames) ==
    IF i >= n THEN [ret |-> 0, mem |-> m, sent |-> frames]
    ELSE LET frame == FrameAt(24, Addr(ct, block_num, i))
             b == BlockOf(ct, frame)
             w == CardAnswer(m, b, ws[i + 1])
             m2 == IF CardStores(w) THEN [m EXCEPT ![b] = data[i + 1]] ELSE m
         IN  IF (IF b \in DOMAIN m THEN WriteReturns[ws[i + 1]] ELSE write(w)) # 0
             THEN [ret |-> -1, mem |-> m2, sent |-> Append(frames, frame)]
             ELSE WriteLoop(ct, block_num, n, data, ws, i + 1, m2, Append(frames, frame))

\* The loop of readblocks (sdcard.py:193-202) from i on.
RECURSIVE ReadLoop(_, _, _, _, _, _, _, _)
ReadLoop(ct, block_num, n, buf, as, i, m, frames) ==
    IF i >= n THEN [ret |-> 0, buf |-> buf, sent |-> frames]
    ELSE LET frame == FrameAt(17, Addr(ct, block_num, i))
             b == BlockOf(ct, frame)
             a == IF b \in DOMAIN m THEN as[i + 1] ELSE [as[i + 1] EXCEPT !.r17 = 64]
         IN  IF readinto(a) # 0
             THEN [ret |-> -1, buf |-> buf, sent |-> Append(frames, frame)]
             ELSE ReadLoop(ct, block_num, n, [buf EXCEPT ![i + 1] = m[b]], as, i + 1, m,
                           Append(frames, frame))

\* The card answers the commands it is sent: once a single-block operation
\* has failed no later command is sent, and the answers listed for those are
\* fixed to one that is never looked at.
WritesAnswered(n) ==
    {ws \in [1..n -> WriteAnswers] :
        \A i \in 1..n :
            (\E j \in 1..(i - 1) : WriteReturns[ws[j]] # 0) => ws[i] = WriteAnswer(0, 0, 229, 1)}
ReadsAnswered(n) ==
    {as \in [1..n -> ReadAnswers] :
        \A i \in 1..n :
            (\E j \in 1..(i - 1) : readinto(as[j]) # 0) => as[i] = [r17 |-> 0, lat |-> 1]}

\* Mutant: a failed transfer issues the command of its failing block again.
writeblocks_Retry(ct, block_num, n, data, ws, m) ==
    LET r == WriteLoop(ct, block_num, n, data, ws, 0, m, << >>)
    IN  IF r.ret # 0 THEN [r EXCEPT !.sent = Append(@, @[Len(@)])] ELSE r

\* The loop of writeblocks (sdcard.py:208-218) as a whole.
writeblocks(ct, block_num, n, data, ws, m) ==
    WriteLoop(ct, block_num, n, data, ws, 0, m, << >>)

\* The loop of readblocks (sdcard.py:192-202) as a whole.
readblocks(ct, block_num, n, buf, as, m) ==
    ReadLoop(ct, block_num, n, buf, as, 0, m, << >>)

\* The block API is used on a driver whose bring-up is taken as done, with
\* the card type the card has.
InitRW ==
    /\ card_type \in {CARD_TYPE_SD1, CARD_TYPE_SD2, CARD_TYPE_SDHC}
    /\ card = [r0 |-> 1, r8 |-> IF card_type = CARD_TYPE_SD1 THEN 5 ELSE 1, echo |-> Echo,
               r55 |-> 1, n41 |-> 1, r58 |-> 0,
               ccs |-> IF card_type = CARD_TYPE_SDHC THEN 1 ELSE 0, r16 |-> 0]
    /\ dpc = "ready" /\ cs = 1 /\ sent = << >>
    /\ mem = [b \in CardBlocks |-> 0]
    /\ lastw = NoCall /\ lastr = NoCall /\ poll = NoPoll /\ lasti = NoIoctl
    /\ VerIdle /\ LogIdle

\* writeblocks(block_num, buf, num_blocks) (sdcard.py:204-218); data is buf
\* in blocks and ws the card's answers, block by block.
WriteBlocks(block_num, data, n, ws) ==
    /\ dpc = "ready"
    /\ IF Len(data) # n
       THEN /\ lastw' = Call(block_num, n, data, TRUE, 0, "none", << >>, ValueErrorRaised)
            /\ UNCHANGED <<mem, sent>>
       ELSE LET r == writeblocks(card_type, block_num, n, data, ws, mem)
                fail == FirstFailing(WriteRets(card_type, block_num, n, ws, mem))
            IN  /\ mem' = r.mem
                /\ sent' = r.sent
                /\ lastw' = Call(block_num, n, data,
                                 \A i \in 1..n : ConformingWrite(ws[i]), fail,
                                 WhyAt(WriteWhys(card_type, block_num, n, ws, mem), fail),
                                 Answered(card_type, 24, block_num, IF fail = 0 THEN n ELSE fail, ws, mem),
                                 r.ret)
    /\ lastr' = NoCall
    /\ cs' = 1
    /\ UNCHANGED <<card, dpc, card_type, poll, lasti, verVars, logVars>>

\* readblocks(block_num, buf, num_blocks) (sdcard.py:188-202); buf is the
\* caller's buffer in blocks and as the card's answers, block by block.
ReadBlocks(block_num, buf, n, as) ==
    /\ dpc = "ready"
    /\ IF Len(buf) # n
       THEN /\ lastr' = Call(block_num, n, buf, TRUE, 0, "none", << >>, ValueErrorRaised)
            /\ UNCHANGED sent
       ELSE LET r == readblocks(card_type, block_num, n, buf, as, mem)
                fail == FirstFailing(ReadRets(card_type, block_num, n, as, mem))
            IN  /\ sent' = r.sent
                /\ lastr' = Call(block_num, n, r.buf,
                                 \A i \in 1..n : ConformingRead(as[i]), fail,
                                 WhyAt(ReadWhys(card_type, block_num, n, as, mem), fail),
                                 Answered(card_type, 17, block_num, IF fail = 0 THEN n ELSE fail, as, mem),
                                 r.ret)
    /\ cs' = 1
    /\ UNCHANGED <<card, dpc, card_type, mem, lastw, poll, lasti, verVars, logVars>>

NextRW ==
    \/ \E block_num \in StartBlocks, data \in Buffers(DataVals), n \in 1..MaxBlocks :
           \E ws \in WritesAnswered(IF Len(data) = n THEN n ELSE 0) :
               WriteBlocks(block_num, data, n, ws)
    \/ \E block_num \in StartBlocks, buf \in UNION {[1..n -> {Stale}] : n \in 1..MaxBlocks}, n \in 1..MaxBlocks :
           \E as \in ReadsAnswered(IF Len(buf) = n THEN n ELSE 0) :
               ReadBlocks(block_num, buf, n, as)

SpecRW == InitRW /\ [][NextRW]_vars

\* ioctl(op, arg) (sdcard.py:220-229).
BlockSize == 512
IoctlOps == {4, 5, 6}
ioctl(op) == IF op = 4 THEN 8 * 1024 * 1024 ELSE IF op = 5 THEN BlockSize ELSE -1

Ioctl(op) ==
    /\ dpc = "ready"
    /\ lasti' = [called |-> TRUE, op |-> op, ret |-> ioctl(op)]
    /\ UNCHANGED <<card, dpc, card_type, cs, sent, mem, lastw, lastr, poll, verVars, logVars>>

IoctlCall == \E op \in IoctlOps : Ioctl(op)

\* One call of the driver: its construction on some card, or one call of
\* the block API on a ready driver whose card holds any data.
InitCall ==
    /\ card_type \in {CARD_TYPE_SD1, CARD_TYPE_SD2, CARD_TYPE_SDHC}
    /\ card = [r0 |-> 1, r8 |-> IF card_type = CARD_TYPE_SD1 THEN 5 ELSE 1, echo |-> Echo,
               r55 |-> 1, n41 |-> 1, r58 |-> 0,
               ccs |-> IF card_type = CARD_TYPE_SDHC THEN 1 ELSE 0, r16 |-> 0]
    /\ dpc = "ready" /\ cs = 1 /\ sent = << >>
    /\ mem \in [CardBlocks -> DataVals]
    /\ lastw = NoCall /\ lastr = NoCall /\ poll = NoPoll /\ lasti = NoIoctl
    /\ VerIdle /\ LogIdle

InitDriver == InitCardSpec \/ InitCall

WriteOnce ==
    /\ ~lastw.called /\ ~lastr.called
    /\ \E block_num \in StartBlocks, data \in Buffers(DataVals), n \in 1..MaxBlocks :
           \E ws \in WritesAnswered(IF Len(data) = n THEN n ELSE 0) :
               WriteBlocks(block_num, data, n, ws)

ReadOnce ==
    /\ ~lastw.called /\ ~lastr.called
    /\ \E block_num \in StartBlocks, buf \in UNION {[1..n -> {Stale}] : n \in 1..MaxBlocks}, n \in 1..MaxBlocks :
           \E as \in ReadsAnswered(IF Len(buf) = n THEN n ELSE 0) :
               ReadBlocks(block_num, buf, n, as)

NextDriver == Construct \/ WriteOnce \/ ReadOnce \/ IoctlCall

SpecDriver == InitDriver /\ [][NextDriver]_vars

\* The blocks of a call lie on the card.
InRange(c) == c.block_num + c.num_blocks <= Capacity

\* C2: on a driver that is ready and a card that follows the protocol, a
\* writeblocks call with a buffer of 512 * num_blocks bytes returns 0, and a
\* readblocks call of the same blocks made after it returns 0 and fills the
\* buffer with the bytes that were written.
C2_RoundTrip ==
    /\ (lastw.called /\ lastw.conf /\ Len(lastw.data) = lastw.num_blocks /\ InRange(lastw)) =>
           lastw.ret = 0
    /\ (/\ lastw.called /\ lastw.conf /\ Len(lastw.data) = lastw.num_blocks /\ InRange(lastw)
        /\ lastr.called /\ lastr.conf /\ Len(lastr.data) = lastr.num_blocks
        /\ lastr.block_num = lastw.block_num /\ lastr.num_blocks = lastw.num_blocks) =>
           lastr.ret = 0 /\ lastr.data = lastw.data

\* ================================================================ verifier
\* The log the firmware writes in a run of n samples without errors: each
\* line carries the digest of the line before it (main.py:154, 187-192).
RECURSIVE ChainOf(_)
ChainOf(samples) ==
    IF samples = << >> THEN << >>
    ELSE LET front == ChainOf(SubSeq(samples, 1, Len(samples) - 1))
             s == samples[Len(samples)]
             ph == IF front = << >> THEN GENESIS ELSE get_hash(front[Len(front)])
         IN  Append(front, LogLine(s.ts, s.rf, ph))

Samples == [ts : 0..MaxVal, rf : 0..MaxVal]
SampleSeqs == UNION {[1..n -> Samples] : n \in 0..MaxChain}

SensorFields == {"ts", "rf"}

InitVerify ==
    /\ \E ss \in SampleSeqs : orig = ChainOf(ss)
    /\ df = orig
    /\ edit = NoEdit
    /\ results = << >> /\ runs = << >>
    /\ LogIdle /\ DrvIdle

Editable == edit.kind = "none" /\ results = << >>

\* Record j (counted from 0) of the file, one digit of a sensor field
\* replaced by another digit: the field denotes another number.
EditDigit(j, f, v) ==
    /\ Editable /\ j < Len(df) /\ v # df[j + 1][f].v
    /\ df' = [df EXCEPT ![j + 1][f].v = v]
    /\ edit' = [kind |-> "digit", j |-> j]
    /\ UNCHANGED <<orig, results, runs, logVars, drvVars>>

\* One byte replaced so that the field is another spelling of the same
\* number ("100" -> "1e2", "0.00" -> "0e00").
EditRespell(j, f) ==
    /\ Editable /\ j < Len(df)
    /\ df' = [df EXCEPT ![j + 1][f].sp = "exp"]
    /\ edit' = [kind |-> "respell", j |-> j]
    /\ UNCHANGED <<orig, results, runs, logVars, drvVars>>

\* One byte replaced so that the field is no number ("1x0").
EditJunk(j, f) ==
    /\ Editable /\ j < Len(df)
    /\ df' = [df EXCEPT ![j + 1][f].sp = "junk"]
    /\ edit' = [kind |-> "junk", j |-> j]
    /\ UNCHANGED <<orig, results, runs, logVars, drvVars>>

\* One character of record j's prev_hash field replaced.
EditHashByte(j) ==
    /\ Editable /\ j < Len(df)
    /\ df' = [df EXCEPT ![j + 1].ph = Corrupt(@)]
    /\ edit' = [kind |-> "hashbyte", j |-> j]
    /\ UNCHANGED <<orig, results, runs, logVars, drvVars>>

\* Record j removed from the file.
EditDelete(j) ==
    /\ Editable /\ j < Len(df)
    /\ df' = SubSeq(df, 1, j) \o SubSeq(df, j + 2, Len(df))
    /\ edit' = [kind |-> "delete", j |-> j]
    /\ UNCHANGED <<orig, results, runs, logVars, drvVars>>

\* The file cut after its first n records (n >= 1): a suffix removed.
EditTruncate(n) ==
    /\ Editable /\ 1 <= n /\ n < Len(df)
    /\ df' = SubSeq(df, 1, n)
    /\ edit' = [kind |-> "truncate", j |-> n]
    /\ UNCHANGED <<orig, results, runs, logVars, drvVars>>

\* Records j and k exchanged.
EditSwap(j, k) ==
    /\ Editable /\ j < k /\ k < Len(df)
    /\ df' = [df EXCEPT ![j + 1] = df[k + 1], ![k + 1] = df[j + 1]]
    /\ edit' = [kind |-> "swap", j |-> j]
    /\ UNCHANGED <<orig, results, runs, logVars, drvVars>>

MaxRuns == 2

\* One call verify_hash_chain(data) (analysis.py:165); the frame is only read.
Verify ==
    /\ Len(results) < MaxRuns
    /\ results' = Append(results, verify_hash_chain(df))
    /\ UNCHANGED <<df, orig, edit, runs, logVars, drvVars>>

NextVerify ==
    \/ \E j \in 0..(MaxChain - 1) : EditHashByte(j)
    \/ \E j \in 0..(MaxChain - 1), f \in SensorFields, v \in 0..MaxVal : EditDigit(j, f, v)
    \/ \E j \in 0..(MaxChain - 1), f \in SensorFields : EditRespell(j, f)
    \/ \E j \in 0..(MaxChain - 1), f \in SensorFields : EditJunk(j, f)
    \/ \E j \in 0..(MaxChain - 1) : EditDelete(j)
    \/ \E n \in 1..MaxChain : EditTruncate(n)
    \/ \E j \in 0..(MaxChain - 1), k \in 0..(MaxChain - 1) : EditSwap(j, k)
    \/ Verify

SpecVerify == InitVerify /\ [][NextVerify]_vars

\* ------------------------------------------------------- verifier claims
ByteEdits == {"digit", "respell", "junk", "hashbyte"}
Verified == results # << >>
SetMin(S) == CHOOSE x \in S : \A y \in S : x <= y

\* serialize(record) of the claims: the record's values in the line format.
Serialize(r) == [ts |-> Text(r.ts.v, "int"), rf |-> Text(r.rf.v, "fix"), ph |-> r.ph]

C4_Detectable ==
    \/ edit.kind \in {"digit", "delete"} /\ edit.j < Len(orig) - 1
    \/ edit.kind \in {"hashbyte", "swap"}

C5_GenesisFirst ==
    (Verified /\ Len(df) >= 1 /\ df[1].ph # GENESIS) =>
        \A n \in DOMAIN results :
            results[n].kind = "TamperedGenesis" /\ results[n].examined = {}

C5_Witness ==
    Verified /\ Len(df) >= 2 /\ df[1].ph # GENESIS /\ df[2].ph # get_hash(df[1])

\* C6: with a correct genesis prev_hash, verification reports the smallest
\* i >= 1 with hash(serialize(record[i-1])) # record[i].prev_hash, having
\* examined the pairs 1..i only, and returns Verified iff there is no such i.
C6_Mismatches == {i \in 1..(Len(df) - 1) : get_hash(Serialize(df[i])) # df[i + 1].ph}

C6_FirstMismatch ==
    (Verified /\ Len(df) >= 1 /\ df[1].ph = GENESIS) =>
        IF C6_Mismatches = {}
        THEN results[1].kind = "Verified" /\ results[1].examined = 1..(Len(df) - 1)
        ELSE /\ results[1].kind = "TamperedAt"
             /\ results[1].at = SetMin(C6_Mismatches)
             /\ results[1].examined = 1..SetMin(C6_Mismatches)

\* C7: verifying the same unmodified valid log (of at least one record)
\* twice yields Verified both times and leaves the log as it was.
C7_Idempotent ==
    (edit.kind = "none" /\ Len(results) = 2 /\ Len(orig) >= 1) =>
        /\ results[1].kind = "Verified" /\ results[2].kind = "Verified"
        /\ df = orig

\* ================================================================== logger
MaxTicks == 21     \* passes of the loop in all
MaxErrors == 1     \* exceptions raised in all
MaxBoots == 2      \* starts of run_logger
MaxPartial == 1    \* lines a failing flush wrote before it failed

FlushThreshold == 20

\* LOG_FILE exists with its header only (main.py:93-98); nothing runs yet.
InitLog ==
    /\ lpc = "off" /\ storage = << >> /\ log_buffer = << >>
    /\ prev_hash = GENESIS /\ clock = 0
    /\ hist = NoHist
    /\ VerIdle /\ DrvIdle

\* get_last_line (main.py:120-132): the last line of the file, or None (the
\* empty sequence) when the file holds the header only or reading raises.
get_last_line(file, readOk) ==
    IF readOk /\ Len(file) + 1 > 1 THEN <<file[Len(file)]>> ELSE << >>

\* run_logger up to its loop (main.py:149-157).  init_all's result and the
\* success of reading the file are inputs.
Boot(initOk, readOk) ==
    /\ lpc = "off" /\ hist.boots < MaxBoots
    /\ IF ~initOk
       THEN /\ lpc' = "stopped"
            /\ UNCHANGED <<prev_hash, clock>>
            /\ hist' = [hist EXCEPT !.boots = @ + 1]
       ELSE LET last_line == get_last_line(storage, readOk)
                cursor == IF last_line # << >> THEN get_hash(last_line[1]) ELSE GENESIS
            IN  /\ lpc' = "running"
                /\ prev_hash' = cursor
                /\ clock' = 0
                /\ hist' = [hist EXCEPT !.boots = @ + 1, !.appended = 0,
                                        !.cursor = cursor, !.firstph = << >>,
                                        !.made = << >>, !.base = Len(storage),
                                        !.flushfail = FALSE]
    /\ log_buffer' = << >>
    /\ UNCHANGED <<storage, verVars, drvVars>>

\* One pass of the loop in which the log interval has elapsed and nothing
\* raises (main.py:161-200).
Tick(rf) ==
    /\ lpc = "running" /\ hist.ticks < MaxTicks
    /\ LET ts == clock + 1
           log_line == LogLine(ts, rf, prev_hash)
           buf == Append(log_buffer, log_line)
       IN  /\ clock' = ts
           /\ prev_hash' = get_hash(log_line)
           /\ IF Len(buf) >= FlushThreshold
              THEN storage' = storage \o buf /\ log_buffer' = << >>
              ELSE storage' = storage /\ log_buffer' = buf
           /\ hist' = [hist EXCEPT !.ticks = @ + 1, !.appended = @ + 1,
                                   !.firstph = IF @ = << >> THEN <<prev_hash>> ELSE @,
                                   !.made = Append(@, log_line)]
    /\ lpc' = lpc
    /\ UNCHANGED <<verVars, drvVars>>

\* The handler (main.py:202-208) on a buffer buf: it writes every buffered
\* line and keeps the buffer.  handlerOk = FALSE: its own write raises after
\* k lines, and the exception leaves run_logger ("raised").
Handler(file, buf, handlerOk, k) ==
    IF buf = << >> THEN [file |-> file, pc |-> "running"]
    ELSE IF handlerOk THEN [file |-> file \o buf, pc |-> "running"]
    ELSE [file |-> file \o SubSeq(buf, 1, k), pc |-> "raised"]

\* A pass in which sampling raises before the line is built (main.py:161-185).
TickSampleError(handlerOk, k) ==
    /\ lpc = "running" /\ hist.ticks < MaxTicks /\ hist.errors < MaxErrors
    /\ (log_buffer = << >>) => handlerOk
    /\ k <= Len(log_buffer)
    /\ LET h == Handler(storage, log_buffer, handlerOk, k)
       IN  storage' = h.file /\ lpc' = h.pc
    /\ clock' = clock + 1
    /\ hist' = [hist EXCEPT !.ticks = @ + 1, !.errors = @ + 1]
    /\ UNCHANGED <<log_buffer, prev_hash, verVars, drvVars>>

\* A pass whose flush raises after j lines were written (main.py:195-198).
TickFlushError(rf, j, handlerOk, k) ==
    /\ lpc = "running" /\ hist.ticks < MaxTicks /\ hist.errors < MaxErrors
    /\ LET ts == clock + 1
           log_line == LogLine(ts, rf, prev_hash)
           buf == Append(log_buffer, log_line)
           h == Handler(storage \o SubSeq(buf, 1, j), buf, handlerOk, k)
       IN  /\ Len(buf) >= FlushThreshold
           /\ clock' = ts
           /\ prev_hash' = get_hash(log_line)
           /\ log_buffer' = buf
           /\ storage' = h.file /\ lpc' = h.pc
           /\ hist' = [hist EXCEPT !.ticks = @ + 1, !.appended = @ + 1, !.errors = @ + 1,
                                   !.firstph = IF @ = << >> THEN <<prev_hash>> ELSE @,
                                   !.made = Append(@, log_line), !.flushfail = TRUE]
    /\ UNCHANGED <<verVars, drvVars>>

\* Power is lost: what is in memory is gone, the file stays as it is.
Crash ==
    /\ lpc \in {"running", "stopped", "raised"}
    /\ lpc' = "off"
    /\ log_buffer' = << >>
    /\ UNCHANGED <<storage, prev_hash, clock, hist, verVars, drvVars>>

LogReadings == {0}

NextLog ==
    \/ \E initOk \in BOOLEAN, readOk \in BOOLEAN : Boot(initOk, readOk)
    \/ \E rf \in LogReadings : Tick(rf)
    \/ \E handlerOk \in BOOLEAN, k \in 0..MaxPartial : TickSampleError(handlerOk, k)
    \/ \E rf \in LogReadings, j \in 0..MaxPartial, handlerOk \in BOOLEAN, k \in 0..MaxPartial :
           TickFlushError(rf, j, handlerOk, k)
    \/ Crash

SpecLog == InitLog /\ [][NextLog]_vars

\* ------------------------------------------------------------ logger claims
\* C8: at logger start the cursor is hash(last stored record line) when the
\* log holds a record and the genesis constant when it holds none, and the
\* first record appended after the start carries the cursor as prev_hash.
C8_Resume ==
    /\ (lpc = "running" /\ hist.appended = 0) =>
           prev_hash = IF Len(storage) >= 1 THEN get_hash(storage[Len(storage)])
                       ELSE GENESIS
    /\ (hist.firstph # << >>) => hist.firstph[1] = hist.cursor

\* C9: in a first run without errors, a crash after m >= 1 appended records
\* leaves exactly 20 * floor(m / 20) records on storage, and verification of
\* that partial log returns Verified.
C9_BatchLoss ==
    (lpc = "off" /\ hist.boots = 1 /\ hist.errors = 0 /\ hist.appended >= 1) =>
        /\ Len(storage) = FlushThreshold * (hist.appended \div FlushThreshold)
        /\ verify_hash_chain(storage).kind = "Verified"

\* C10: the record lines on storage always form a chain: prev_hash(0) is the
\* genesis constant and prev_hash(i) = hash(line(i-1)) for every i >= 1.
C10_LogChain ==
    \A i \in 1..Len(storage) :
        storage[i].ph = IF i = 1 THEN GENESIS ELSE get_hash(storage[i - 1])

\* The lines written to the file since the last boot.
WrittenSinceBoot == SubSeq(storage, hist.base + 1, Len(storage))
OnStorage(line) == \E i \in DOMAIN WrittenSinceBoot : WrittenSinceBoot[i] = line

\* C11: every record line the logger builds is written to storage at most
\* once: no line written since the boot is on storage twice (the lines one
\* boot builds differ in their timestamps), and the file grows by the lines
\* built only.
C11_AppendOnce ==
    /\ \A i, j \in DOMAIN WrittenSinceBoot :
           i # j => WrittenSinceBoot[i] # WrittenSinceBoot[j]
    /\ Len(WrittenSinceBoot) <= Len(hist.made)

\* C12: once a flush has failed with a storage error no buffered record is
\* discarded: every line built since the boot is on storage, or is in the
\* buffer of a loop that is still running and will flush it.
C12_FlushRetry ==
    (hist.flushfail /\ lpc # "off") =>
        \A n \in DOMAIN hist.made :
            \/ OnStorage(hist.made[n])
            \/ lpc = "running" /\ \E i \in DOMAIN log_buffer : log_buffer[i] = hist.made[n]

\* C13: no storage error ends the sampling loop: no exception leaves
\* run_logger once the loop has started.
C13_LoopSurvives == lpc # "raised"

\* ================================================================= session
\* init_all (main.py:61-105) on a bus with card c: the sensors are set up,
\* then SDCard(spi, cs) is constructed, which runs init_card, then the card
\* is mounted and the log file made.  Any exception makes it return False.
init_all(c, sensorsOk, mountOk) ==
    IF ~sensorsOk
    THEN [ok |-> FALSE, built |-> FALSE, drv |-> InitResult("none", 0, 1, << >>)]
    ELSE LET r == init_card(c)
         IN  [ok |-> r.outcome = "ready" /\ mountOk, built |-> TRUE, drv |-> r]

\* The board is powered with some card in its slot; nothing has run.
InitSession ==
    /\ card \in Cards
    /\ dpc = "new" /\ card_type = 0 /\ cs = 1 /\ sent = << >>
    /\ mem = << >> /\ lastw = NoCall /\ lastr = NoCall /\ poll = NoPoll /\ lasti = NoIoctl
    /\ lpc = "off" /\ storage = << >> /\ log_buffer = << >>
    /\ prev_hash = GENESIS /\ clock = 0 /\ hist = NoHist
    /\ VerIdle

\* run_logger from its first line to its loop (main.py:149-157), init_all
\* and the driver's bring-up included.
RunLogger(sensorsOk, mountOk, readOk) ==
    /\ lpc = "off" /\ dpc = "new" /\ hist.boots < MaxBoots
    /\ LET a == init_all(card, sensorsOk, mountOk)
           last_line == get_last_line(storage, readOk)
           cursor == IF last_line # << >> THEN get_hash(last_line[1]) ELSE GENESIS
       IN  /\ IF a.built
              THEN /\ dpc' = IF a.drv.outcome = "ready" THEN "ready" ELSE "raised"
                   /\ card_type' = a.drv.card_type
                   /\ cs' = a.drv.cs
                   /\ sent' = a.drv.sent
              ELSE UNCHANGED <<dpc, card_type, cs, sent>>
           /\ IF a.ok
              THEN /\ lpc' = "running"
                   /\ prev_hash' = cursor
                   /\ hist' = [hist EXCEPT !.boots = @ + 1, !.appended = 0,
                                           !.cursor = cursor, !.firstph = << >>,
                                           !.made = << >>, !.base = Len(storage),
                                           !.flushfail = FALSE]
              ELSE /\ lpc' = "stopped"
                   /\ prev_hash' = prev_hash
                   /\ hist' = [hist EXCEPT !.boots = @ + 1]
    /\ clock' = 0
    /\ log_buffer' = << >>
    /\ UNCHANGED <<card, mem, lastw, lastr, poll, lasti, storage, verVars>>

\* The board is switched off and on again: memory and pins are reset.
PowerCycle ==
    /\ lpc \in {"running", "stopped", "raised"}
    /\ lpc' = "off" /\ log_buffer' = << >>
    /\ dpc' = "new" /\ card_type' = 0 /\ cs' = 1 /\ sent' = << >>
    /\ UNCHANGED <<card, mem, lastw, lastr, poll, lasti, storage, prev_hash, clock, hist, verVars>>

NextSession ==
    \/ \E sensorsOk \in BOOLEAN, mountOk \in BOOLEAN, readOk \in BOOLEAN :
           RunLogger(sensorsOk, mountOk, readOk)
    \/ PowerCycle

SpecSession == InitSession /\ [][NextSession]_vars

\* The opcodes of the commands put on the bus, in order.
Opcodes(frames) == [i \in DOMAIN frames |-> frames[i][1] - 64]

\* C14: when a bring-up step fails init_card raises: no later bring-up
\* command and no read or write command (CMD17, CMD24) is sent, the logger's
\* loop is not entered and no record is appended or written.
C14_BringUpFatal ==
    /\ (dpc = "raised") =>
           /\ lpc = "stopped"
           /\ storage = << >> /\ log_buffer = << >> /\ hist.made = << >>
           /\ \A i \in DOMAIN sent : Opcodes(sent)[i] \notin {17, 24}
    /\ (dpc # "new" /\ card.r0 # R1_IDLE_STATE) =>
           dpc = "raised" /\ Opcodes(sent) = <<0>>
    /\ (dpc # "new" /\ card.r0 = R1_IDLE_STATE /\ ~Conforming(card)) =>
           /\ dpc = "raised"
           /\ \A i \in DOMAIN sent :
                  /\ Opcodes(sent)[i] \in {58, 16} => i = Len(sent)
                  /\ (card.r8 \notin {1, 5} \/ (card.r8 = 1 /\ card.echo # Echo)) =>
                         Opcodes(sent)[i] \in {0, 8}

C14_Witness ==
    /\ dpc = "raised" /\ card.r0 = 0 /\ lpc = "stopped"
    /\ sent = <<Frame(0, 0, 149)>> /\ cs = 0

\* A call that got as far as its loop.
Looped(c) == c.called /\ c.ret # ValueErrorRaised

\* C15: within one readblocks or writeblocks call no command is issued
\* twice, and when the single-block operation of a block fails the call
\* returns failure with that block's command the last one issued; when none
\* fails there is exactly one command for each block.
C15_NoRetry ==
    \A c \in {lastw, lastr} :
        (Looped(c) /\ (c = lastr \/ ~lastr.called)) =>
            /\ \A i, j \in DOMAIN sent : i # j => sent[i] # sent[j]
            /\ c.fail # 0 => c.ret = -1 /\ Len(sent) = c.fail
            /\ c.fail = 0 => c.ret = 0 /\ Len(sent) = c.num_blocks

C15_Witness ==
    /\ Looped(lastw) /\ lastw.num_blocks = 2 /\ lastw.fail = 1
    /\ lastw.ret = -1 /\ Len(sent) = 1

\* A call that failed in one of its single-block operations.
Failed(c) == Looped(c) /\ c.fail # 0

\* C16: the result of a failed call tells the caller the kind of failure:
\* two failed writes, one whose data the card rejected and one where the card
\* did not become ready in time, return different results, and so do a read
\* that timed out waiting for its data token and a read that failed otherwise.
C16_TypedOutcomes ==
    [][/\ (Failed(lastw) /\ Failed(lastw') /\ lastw.why # lastw'.why) =>
              lastw.ret # lastw'.ret
       /\ (Failed(lastr) /\ Failed(lastr') /\ lastr.why # lastr'.why) =>
              lastr.ret # lastr'.ret]_vars

\* The argument field of a frame is the address of block n for a card of
\* type ct: n itself for a block-addressed card, n * 512 otherwise (compared
\* byte by byte, the top byte of n * 512 being n \div 32768).
CarriesAddress(frame, ct, n) ==
    IF ct = CARD_TYPE_SDHC
    THEN /\ frame[2] * 256 + frame[3] = n \div 65536
         /\ frame[4] * 256 + frame[5] = n % 65536
    ELSE /\ frame[2] = n \div 32768
         /\ frame[3] = (n \div 128) % 256
         /\ frame[4] = (n % 128) * 2
         /\ frame[5] = 0

\* C18: the k-th single-block command of a transfer carries the address of
\* block block_num + k, scaled by 512 on a byte-addressed card, and a read
\* moves that block into place k of the caller's buffer.
C18_Addressing ==
    /\ \A c \in {lastw, lastr} :
           (Looped(c) /\ (c = lastr \/ ~lastr.called)) =>
               \A k \in DOMAIN sent :
                   /\ sent[k][1] = 64 + (IF c = lastr THEN 17 ELSE 24)
                   /\ CarriesAddress(sent[k], card_type, c.block_num + k - 1)
    /\ Looped(lastr) =>
           \A k \in 1..lastr.num_blocks :
               (lastr.fail = 0 \/ k < lastr.fail) =>
                   /\ lastr.block_num + k - 1 \in DOMAIN mem
                   /\ lastr.data[k] = mem[lastr.block_num + k - 1]

\* A frame is the 6 bytes of command op with the 32-bit argument
\* hi * 65536 + lo, most significant byte first, and checksum crc.
OnWire(frame, op, hi, lo, crc) ==
    /\ Len(frame) = 6
    /\ \A i \in 1..6 : frame[i] \in 0..255
    /\ frame[1] = 64 + op
    /\ frame[2] * 256 + frame[3] = hi
    /\ frame[4] * 256 + frame[5] = lo
    /\ frame[6] = crc

\* C19: every command put on the bus is 6 bytes: 0x40 | opcode, the 32-bit
\* argument most significant byte first, and the checksum of the command:
\* 0x95 for CMD0 (argument 0), 0x87 for CMD8 (argument 0x1AA) and 0 for the
\* block commands, whose argument is the low 32 bits of the block's address.
C19_WireFormat ==
    /\ \A k \in DOMAIN sent :
           /\ Len(sent[k]) = 6
           /\ Opcodes(sent)[k] \in 0..63
           /\ sent[k][6] = (IF Opcodes(sent)[k] = 0 THEN 149
                            ELSE IF Opcodes(sent)[k] = 8 THEN 135 ELSE 0)
    /\ (dpc = "raised" /\ Len(sent) >= 1) => OnWire(sent[1], 0, 0, 0, 149)
    /\ (dpc = "raised" /\ Len(sent) >= 2) => OnWire(sent[2], 8, 0, 426, 135)
    /\ \A c \in {lastw, lastr} :
           (Looped(c) /\ (c = lastr \/ ~lastr.called)) =>
               \A k \in DOMAIN sent :
                   LET n == c.block_num + k - 1
                   IN  IF card_type = CARD_TYPE_SDHC
                       THEN OnWire(sent[k], IF c = lastr THEN 17 ELSE 24,
                                   n \div 65536, n % 65536, 0)
                       ELSE OnWire(sent[k], IF c = lastr THEN 17 ELSE 24,
                                   (n \div 128) % 65536, (n % 128) * 512, 0)

C19_Witness ==
    /\ dpc = "raised" /\ Len(sent) = 2
    /\ sent[2] = <<72, 0, 0, 1, 170, 135>>

\* ========================================================== polling loops
\* The loops of the driver, one pass at a time.  poll.start is the value of
\* time.ticks_ms() taken before the loop, poll.now its value at the loop's
\* test, poll.reads the passes made and poll.out where the loop is:
\* "running", "returned" (left, the caller goes on) or "raised".
MaxStall == 2       \* passes of the ACMD41 loop within one tick of the clock
MaxClock == 2000    \* the clock is followed up to this many ms
OpCondMs == 1000
SleepMs == 1
StartTicks == {0, 7}

\* Mutant: the arguments of ticks_diff are swapped.
ticks_diff_Swapped(now, start) == start - now

\* time.ticks_diff(time.ticks_ms(), start_time)
ticks_diff(now, start) == now - start

\* Mutant: high-capacity support is advertised to every card.
Acmd41Arg_AlwaysHcs(ct) == 1073741824

\* The argument of ACMD41 (sdcard.py:77).
Acmd41Arg(ct) == IF ct = CARD_TYPE_SD2 THEN 1073741824 ELSE 0

Entered(loop, start) ==
    [loop |-> loop, start |-> start, now |-> start, reads |-> 0, stall |-> 0,
     out |-> "running", ret |-> 0]

\* The driver is at the entry of one of its loops: in init_card before the
\* ACMD41 loop, the card classified from its answer to CMD8, or in a block
\* operation of a ready driver.
InitLoops ==
    /\ \/ /\ card \in {c \in Cards : c.r0 = 1 /\ c.r8 \in {1, 5} /\ c.echo = Echo}
          /\ card_type = IF card.r8 = 1 THEN CARD_TYPE_SD2 ELSE CARD_TYPE_SD1
          /\ dpc = "new" /\ cs = 1
          /\ sent = <<Frame(0, 0, 149), Frame(8, 426, 135)>>
          /\ \E t \in StartTicks : poll = Entered("acmd41", t)
       \/ /\ card_type \in {CARD_TYPE_SD1, CARD_TYPE_SD2, CARD_TYPE_SDHC}
          /\ card = [r0 |-> 1, r8 |-> IF card_type = CARD_TYPE_SD1 THEN 5 ELSE 1,
                     echo |-> Echo, r55 |-> 1, n41 |-> 1, r58 |-> 0,
                     ccs |-> IF card_type = CARD_TYPE_SDHC THEN 1 ELSE 0, r16 |-> 0]
          /\ dpc = "ready" /\ cs = 0 /\ sent = << >>
          /\ \E t \in StartTicks, l \in {"cmd", "response", "wait_ready", "token"} :
                 poll = Entered(l, t)
    /\ mem = << >> /\ lastw = NoCall /\ lastr = NoCall /\ lasti = NoIoctl
    /\ VerIdle /\ LogIdle

\* One pass of the ACMD41 loop (sdcard.py:79-89) that takes dt ms; when the
\* loop is left the rest of init_card (sdcard.py:91-106) follows.
Acmd41Pass(dt) ==
    /\ poll.loop = "acmd41" /\ poll.out = "running"
    /\ poll.now - poll.start <= MaxClock
    /\ dt = 0 => poll.stall < MaxStall
    /\ LET p == poll.reads + 1
           f55 == Append(sent, Frame(55, 0, 0))
           idle == PyEqInt(CmdResult(Tok55(card, p), << >>, 0), R1_IDLE_STATE)
           f41 == IF idle THEN Append(f55, Frame(41, Acmd41Arg(card_type), 0)) ELSE f55
           now == poll.now + dt
       IN  IF idle /\ PyEqInt(CmdResult(Tok41(card, p), << >>, 0), 0)
           THEN LET r == InitTail(card, card_type, f41)
                IN  /\ sent' = r.sent /\ cs' = r.cs /\ card_type' = r.card_type
                    /\ dpc' = IF r.outcome = "ready" THEN "ready" ELSE "raised"
                    /\ poll' = [poll EXCEPT !.reads = p, !.now = now,
                                   !.out = IF r.outcome = "ready" THEN "returned" ELSE "raised"]
           ELSE IF ticks_diff(now, poll.start) > OpCondMs
           THEN /\ sent' = f41 /\ cs' = 1 /\ dpc' = "raised"
                /\ poll' = [poll EXCEPT !.reads = p, !.now = now, !.out = "raised"]
                /\ UNCHANGED card_type
           ELSE /\ sent' = f41 /\ cs' = 1
                /\ poll' = [poll EXCEPT !.reads = p, !.now = now,
                                        !.stall = IF dt = 0 THEN @ + 1 ELSE @]
                /\ UNCHANGED <<dpc, card_type>>
    /\ UNCHANGED <<card, mem, lastw, lastr, lasti, verVars, logVars>>

\* One pass of _wait_ready (sdcard.py:129-136): the test, the byte b read,
\* and sleep_ms(1), the pass taking dt ms.
WaitReadyPass(b, dt) ==
    /\ poll.loop = "wait_ready" /\ poll.out = "running"
    /\ poll.now - poll.start <= MaxClock
    /\ IF ~(ticks_diff(poll.now, poll.start) < WaitReadyMs)
       THEN poll' = [poll EXCEPT !.out = "returned", !.ret = -1]
       ELSE IF b = 255
       THEN poll' = [poll EXCEPT !.reads = @ + 1, !.out = "returned", !.ret = 0]
       ELSE poll' = [poll EXCEPT !.reads = @ + 1, !.now = @ + dt]
    /\ UNCHANGED <<card, dpc, card_type, cs, sent, mem, lastw, lastr, lasti, verVars, logVars>>

\* One pass of the wait for the data token in _readinto (sdcard.py:144-158).
TokenPass(b, dt) ==
    /\ poll.loop = "token" /\ poll.out = "running"
    /\ poll.now - poll.start <= MaxClock
    /\ IF ~(ticks_diff(poll.now, poll.start) < ReadTokenMs)
       THEN poll' = [poll EXCEPT !.out = "returned", !.ret = -1] /\ cs' = 1
       ELSE IF b = 254
       THEN poll' = [poll EXCEPT !.reads = @ + 1, !.out = "returned", !.ret = 0] /\ cs' = 1
       ELSE poll' = [poll EXCEPT !.reads = @ + 1, !.now = @ + dt] /\ cs' = cs
    /\ UNCHANGED <<card, dpc, card_type, sent, mem, lastw, lastr, lasti, verVars, logVars>>

\* One pass of the wait for the response in _cmd (sdcard.py:117-127,
\* readlen = 0): at most CMD_TIMEOUT bytes are read.
CmdPass(b) ==
    /\ poll.loop = "cmd" /\ poll.out = "running"
    /\ IF poll.reads >= CMD_TIMEOUT
       THEN poll' = [poll EXCEPT !.out = "returned", !.ret = -1]
       ELSE IF b < 128
       THEN poll' = [poll EXCEPT !.reads = @ + 1, !.out = "returned", !.ret = b]
       ELSE poll' = [poll EXCEPT !.reads = @ + 1]
    /\ UNCHANGED <<card, dpc, card_type, cs, sent, mem, lastw, lastr, lasti, verVars, logVars>>

\* One pass of the wait for the data response in _write (sdcard.py:171-174).
ResponsePass(b) ==
    /\ poll.loop = "response" /\ poll.out = "running"
    /\ IF poll.reads >= CMD_TIMEOUT
       THEN poll' = [poll EXCEPT !.out = "returned"]
       ELSE IF Bit4(b) # 0
       THEN poll' = [poll EXCEPT !.reads = @ + 1, !.out = "returned", !.ret = b]
       ELSE poll' = [poll EXCEPT !.reads = @ + 1, !.ret = b]
    /\ UNCHANGED <<card, dpc, card_type, cs, sent, mem, lastw, lastr, lasti, verVars, logVars>>

Acmd41Step == \E dt \in {0, PollMs} : Acmd41Pass(dt)
WaitReadyStep == \E b \in {0, 255}, dt \in {SleepMs, PollMs} : WaitReadyPass(b, dt)
TokenStep == \E b \in {255, 254}, dt \in {SleepMs, PollMs} : TokenPass(b, dt)
CmdStep == \E b \in {255, 0, 1} : CmdPass(b)
ResponseStep == \E b \in {0, 229, 255} : ResponsePass(b)

NextPoll == Acmd41Step \/ WaitReadyStep \/ TokenStep \/ CmdStep \/ ResponseStep

\* The interpreter runs the loop it is in (nothing else runs on the board),
\* and the clock goes on: a pass of the ACMD41 loop that takes time comes
\* again and again.
SpecPoll ==
    /\ InitLoops /\ [][NextPoll]_vars
    /\ WF_vars(Acmd41Pass(PollMs))
    /\ WF_vars(WaitReadyStep) /\ WF_vars(TokenStep)
    /\ WF_vars(CmdStep) /\ WF_vars(ResponseStep)

\* C17: whatever the card answers, each polling loop of the driver is left:
\* the call it is part of returns or raises.
C17_Termination == <>(poll.out # "running")

C17_Witness ==
    /\ poll.loop = "wait_ready" /\ poll.out = "returned" /\ poll.ret = -1
    /\ poll.now - poll.start >= WaitReadyMs /\ poll.reads > 1

\* The pass of the ACMD41 loop in which the k-th frame was sent.
PassOf(k) == Cardinality({j \in 1..k : Opcodes(sent)[j] = 55})

\* An ACMD41 was answered 0.
OpCondDone == \E j \in DOMAIN sent : Opcodes(sent)[j] = 41 /\ Tok41(card, PassOf(j)) = 0

\* C20: every ACMD41 follows at once a CMD55 that was answered idle in the
\* same pass, its argument is 0x40000000 exactly for a card classified v2,
\* CMD58 and CMD16 are sent only after an ACMD41 answered 0, and while none
\* is answered 0 the loop goes on until more than 1000 ms have passed and
\* then raises.
C20_OpCondPoll ==
    (poll.loop = "acmd41") =>
        /\ \A k \in DOMAIN sent :
               Opcodes(sent)[k] = 41 =>
                   /\ k > 1 /\ Opcodes(sent)[k - 1] = 55
                   /\ Tok55(card, PassOf(k)) = R1_IDLE_STATE
                   /\ OnWire(sent[k], 41, IF card_type # CARD_TYPE_SD1 THEN 16384 ELSE 0, 0, 0)
        /\ \A k \in DOMAIN sent :
               Opcodes(sent)[k] \in {58, 16} =>
                   \E j \in 1..(k - 1) :
                       /\ Opcodes(sent)[j] = 41 /\ Tok41(card, PassOf(j)) = 0
                       /\ \A i \in (j + 1)..(k - 1) : Opcodes(sent)[i] \in {58, 16}
        /\ poll.out = "running" => ~OpCondDone /\ poll.now - poll.start <= OpCondMs
        /\ (poll.out = "raised" /\ ~OpCondDone) =>
               /\ poll.now - poll.start > OpCondMs
               /\ \A k \in DOMAIN sent : Opcodes(sent)[k] \notin {58, 16}
        /\ poll.out = "returned" => OpCondDone

C20_Witness ==
    /\ poll.loop = "acmd41" /\ poll.out = "raised" /\ ~OpCondDone
    /\ card_type = CARD_TYPE_SD1 /\ poll.now - poll.start > OpCondMs
    /\ \E k \in DOMAIN sent : Opcodes(sent)[k] = 41

\* The card took the data of a write: the low nibble of its data-response
\* token is 0101, and it reads ready (0xFF) within 500 ms after it.
DataAccepted(w) == w.tok % 16 = 5
ReadyInTime(w) == w.busy < WaitReadyMs

\* C21: a single-block write whose CMD24 was accepted returns 0 if and only
\* if the card's data-response token says accepted and the card is ready
\* within 500 ms; after a token that does not say accepted it returns
\* failure at the test of the token, before any wait for ready.
C21_WriteOutcome ==
    (Looped(lastw) /\ lastw.num_blocks = 1 /\ ~lastw.ans[1].refused
                   /\ lastw.ans[1].x.r24 = 0) =>
        LET w == lastw.ans[1].x
        IN  /\ lastw.ret = 0 <=> (DataAccepted(w) /\ ReadyInTime(w))
            /\ ~DataAccepted(w) => lastw.ret = -1 /\ lastw.why = "rejected"

\* The k-th single-block read of the last readblocks call met a card that
\* answered CMD17 with a token other than 0 or sent no start token 0xFE
\* within 200 ms.
ReadRefused(k) ==
    \/ lastr.ans[k].refused
    \/ lastr.ans[k].x.r17 # 0
    \/ lastr.ans[k].x.lat >= ReadTokenMs

\* C22: a single-block read whose CMD17 is answered with a non-zero token or
\* that sees no start token within 200 ms makes readblocks return failure
\* and leaves the caller's buffer as it was from that block on; any other
\* single-block read copies the block the card sent to its place in the
\* buffer.
C22_ReadOutcome ==
    Looped(lastr) =>
        /\ \A k \in DOMAIN lastr.ans :
               IF ReadRefused(k)
               THEN /\ lastr.ret = -1
                    /\ \A j \in k..lastr.num_blocks : lastr.data[j] = Stale
               ELSE lastr.data[k] = mem[Target(card_type, 17, lastr.block_num, k - 1)]
        /\ (\A k \in DOMAIN lastr.ans : ~ReadRefused(k)) =>
               lastr.ret = 0 /\ Len(lastr.ans) = lastr.num_blocks

C22_Witness ==
    /\ Looped(lastr) /\ lastr.num_blocks = 2 /\ Len(lastr.ans) = 2
    /\ ~ReadRefused(1) /\ lastr.ans[2].x.lat >= ReadTokenMs
    /\ lastr.ret = -1 /\ lastr.data = <<mem[lastr.block_num], Stale>>

\* The card type init_card establishes for a card from its answers to CMD8
\* and CMD58 (sdcard.py:66-97).
EstablishedType(c) ==
    IF c.r8 = 5 THEN CARD_TYPE_SD1
    ELSE IF c.ccs = 1 THEN CARD_TYPE_SDHC ELSE CARD_TYPE_SD2

\* The argument of a frame is that of block n in the addressing mode of a
\* card of type ct: n for a block-addressed card, the low 32 bits of n * 512
\* otherwise.
UsesMode(frame, ct, n) ==
    IF ct = CARD_TYPE_SDHC
    THEN /\ frame[2] * 256 + frame[3] = n \div 65536
         /\ frame[4] * 256 + frame[5] = n % 65536
    ELSE /\ frame[2] * 256 + frame[3] = (n \div 128) % 65536
         /\ frame[4] * 256 + frame[5] = (n % 128) * 512

\* C23: on a ready driver no call of readblocks, writeblocks or ioctl
\* changes card_type, and the commands of a call are addressed in the mode
\* of the card type that bring-up established.
C23_IdentityFixed ==
    [][(dpc = "ready") =>
           /\ card_type' = card_type
           /\ card_type' = EstablishedType(card')
           /\ \A k \in DOMAIN sent' :
                  UsesMode(sent'[k], EstablishedType(card'),
                           (IF lastr'.called THEN lastr' ELSE lastw').block_num + k - 1)]_vars

C23_Witness ==
    /\ dpc = "ready" /\ lasti.called /\ Looped(lastw) /\ Len(sent) = 2
    /\ card_type = CARD_TYPE_SD1 /\ EstablishedType(card) = CARD_TYPE_SD1

\* The batch buffer as a pass of the loop left it after its append and
\* before its flush: the buffer itself, or what a flush moved to storage.
Grown ==
    IF log_buffer' # << >> THEN log_buffer'
    ELSE SubSeq(storage', Len(storage) + 1, Len(storage'))

C25_ChipSelect ==
    (dpc \in {"ready", "raised"}) => cs = 1

\* C26: in a transfer that starts within the capacity ioctl(4) reports and
\* has 1 to 8 blocks, the argument of each command is the address of its
\* block and of no other: the card decodes it to block_num + k.
C26_AddressRange ==
    \A c \in {lastw, lastr} :
        (/\ Looped(c) /\ (c = lastr \/ ~lastr.called)
         /\ c.block_num < ioctl(4) /\ c.num_blocks \in 1..8) =>
            \A k \in DOMAIN sent :
                BlockOf(card_type, sent[k]) = c.block_num + k - 1

\* ========================================================== analysis tool
\* Mutant: the analysis runs whatever verification returned.
main_AnalyseAlways(d) ==
    [log |-> d, verdict |-> verify_hash_chain(d), analysed |-> <<d>>]

\* The script (analysis.py:158-168) on the log d: the frame is verified and,
\* when verify_hash_chain returned True, handed to analyze_log.  An
\* exception in verify_hash_chain ends the script.
main(d) ==
    LET v == verify_hash_chain(d)
    IN  [log |-> d, verdict |-> v,
         analysed |-> IF v.kind = "Verified" THEN <<d>> ELSE << >>]

\* One run of the tool on the file as it is.
Main ==
    /\ Len(runs) < MaxRuns
    /\ runs' = Append(runs, main(df))
    /\ UNCHANGED <<df, orig, edit, results, logVars, drvVars>>

NextAnalysis ==
    \/ \E j \in 0..(MaxChain - 1) : EditHashByte(j)
    \/ \E j \in 0..(MaxChain - 1), f \in SensorFields, v \in 0..MaxVal : EditDigit(j, f, v)
    \/ \E j \in 0..(MaxChain - 1), f \in SensorFields : EditRespell(j, f)
    \/ \E j \in 0..(MaxChain - 1), f \in SensorFields : EditJunk(j, f)
    \/ \E j \in 0..(MaxChain - 1) : EditDelete(j)
    \/ \E n \in 1..MaxChain : EditTruncate(n)
    \/ \E j \in 0..(MaxChain - 1), k \in 0..(MaxChain - 1) : EditSwap(j, k)
    \/ Main

SpecAnalysis == InitVerify /\ [][NextAnalysis]_vars

\* C27: the tool analyses a log only when hash-chain verification of that
\* same log returned valid; a run whose verification reports tampering, at
\* the genesis record or at a pair, analyses nothing.
C27_AnalysisGated ==
    \A n \in DOMAIN runs :
        /\ runs[n].analysed # << >> =>
               runs[n].verdict.kind = "Verified" /\ runs[n].analysed = <<runs[n].log>>
        /\ runs[n].verdict = verify_hash_chain(runs[n].log)
        /\ runs[n].verdict.kind \in {"TamperedGenesis", "TamperedAt"} =>
               runs[n].analysed = << >>

C27_Witness ==
    /\ Len(runs) = 2
    /\ runs[1].verdict.kind = "Verified" /\ runs[1].analysed = <<orig>>
    /\ runs[2].verdict.kind = "TamperedAt" /\ runs[2].analysed = << >>

====
